---- MODULE Spec2Model ----
(***************************************************************************)
(* Model of pathfind (src/src/main.rs): the A* search Context::calculate   *)
(* and the per-frame control state machine of main.                        *)
(*                                                                         *)
(* The grid is scaled down from 20 x 20 to ROWS x COLS.  Option<T> is      *)
(* modelled as a sequence: None is the empty sequence, Some(x) is <<x>>.   *)
(* Pos(r, c) is the pair <<r, c>>.  Rendering, camera and zoom are left    *)
(* out: they neither read nor write the fields modelled here.  Leaving the *)
(* loop on Escape ends a behaviour and is not an action of its own.        *)
(***************************************************************************)
EXTENDS Integers, Sequences, FiniteSets, TLC

VARIABLES
    control_state,  \* Context.control_state
    mouse_grid,     \* Context.mouse_grid
    is_wall,        \* Context.is_wall
    start,          \* Context.start
    end,            \* Context.end
    path,           \* Context.path
    stat_numcalc,   \* Context.stat_numcalc
    q,              \* calculate: local q (the heap's entries, unordered)
    gscore,         \* calculate: local gscore
    parent,         \* calculate: local parent
    visited,        \* calculate: local visited
    pc,             \* position of the last/current calculate() call
    pops,           \* history: q.pop() calls made by the last calculate()
    popped,         \* history: the entries it popped, in order
    tick            \* history: what the last frame read and did

vars == <<control_state, mouse_grid, is_wall, start, end, path, stat_numcalc,
          q, gscore, parent, visited, pc, pops, popped, tick>>

search_vars == <<q, gscore, parent, visited, pc, pops, popped>>

----------------------------------------------------------------------------
(* Bounds *)

ROWS == 2
COLS == 5
\* The pointer is reported over the first PointerCells cells (column by
\* column from the top-left corner) or outside the grid.
PointerCells == 4
\* A single search is run on every grid whose walls lie among the first
\* WallCells cells (column by column from the top-left corner)
WallCells == 9

\* The grids searched under fairness have walls only among the first
\* FairWallCells cells
FairWallCells == 6
\* Frames of one run of identical frames that the history tells apart
MaxRun == 2

----------------------------------------------------------------------------
(* Option, Pos *)

None == <<>>
Some(x) == <<x>>
unwrap(o) == o[1]

Pos(r, c) == <<r, c>>

Cells == {Pos(r, c) : r \in 0..(ROWS - 1), c \in 0..(COLS - 1)}
OptCells == {None} \cup {Some(p) : p \in Cells}

abs_diff(a, b) == IF a >= b THEN a - b ELSE b - a

distance(self, other) ==
    abs_diff(self[1], other[1]) + abs_diff(self[2], other[2])

add(self, rhs) == Pos(self[1] + rhs[1], self[2] + rhs[2])

----------------------------------------------------------------------------
(* CellData and its ordering; BinaryHeap *)

CellData(pos, fscore) == [pos |-> pos, fscore |-> fscore]

\* Ordering of two integers: -1 Less, 0 Equal, 1 Greater
int_cmp(a, b) == IF a < b THEN -1 ELSE IF a = b THEN 0 ELSE 1

then_with(o, next) == IF o # 0 THEN o ELSE next

cmp_unreversed(self, other) ==
    then_with(int_cmp(self.fscore, other.fscore),
              then_with(int_cmp(self.pos[1], other.pos[1]),
                        int_cmp(self.pos[2], other.pos[2])))

cmp(self, other) ==
    then_with(int_cmp(other.fscore, self.fscore),
              then_with(int_cmp(other.pos[1], self.pos[1]),
                        int_cmp(other.pos[2], self.pos[2])))

\* BinaryHeap::pop takes a greatest entry under cmp
heap_top(h) ==
    CHOOSE i \in 1..Len(h) : \A j \in 1..Len(h) : cmp(h[i], h[j]) >= 0

heap_remove(h, i) == SubSeq(h, 1, i - 1) \o SubSeq(h, i + 1, Len(h))

----------------------------------------------------------------------------
(* Context::is_passable *)

is_passable_nowall(w, pos) ==
    /\ pos[1] >= 0
    /\ pos[1] < ROWS
    /\ pos[2] >= 0
    /\ pos[2] < COLS

is_passable(w, pos) ==
    /\ pos[1] >= 0
    /\ pos[1] < ROWS
    /\ pos[2] >= 0
    /\ pos[2] < COLS
    /\ ~w[pos]

----------------------------------------------------------------------------
(* Context::calculate *)

directions == << <<-1, 0>>, <<1, 0>>, <<0, 1>>, <<0, -1>> >>

no_table == [p \in Cells |-> None]
no_visited == [p \in Cells |-> FALSE]

\* The locals of a call that has not created them
no_locals ==
    [q |-> <<>>, gscore |-> no_table, parent |-> no_table,
     visited |-> no_visited, pops |-> 0, popped |-> <<>>]

\* Lines 97-117: reset, seed the heap, check the end points, make the tables.
\* old = [path, stat_numcalc] as they were before the call.
calc_begin_unchecked(w, s, e, old) ==
    IF s # None /\ e # None
    THEN [pc |-> "loop", path |-> <<>>, stat_numcalc |-> 0,
          q |-> <<CellData(unwrap(s), distance(unwrap(s), unwrap(e)))>>,
          gscore |-> [no_table EXCEPT ![unwrap(s)] = Some(0)],
          parent |-> no_table, visited |-> no_visited, pops |-> 0,
          popped |-> <<>>]
    ELSE [pc |-> "done", path |-> <<>>, stat_numcalc |-> 0] @@ no_locals

calc_begin_unseeded(w, s, e, old) ==
    IF s # None /\ e # None
    THEN LET q0 == <<CellData(unwrap(s), distance(unwrap(s), unwrap(e)))>>
         IN  IF ~(is_passable(w, unwrap(s)) /\ is_passable(w, unwrap(e)))
             THEN [pc |-> "done", path |-> <<>>, stat_numcalc |-> 0,
                   q |-> q0, gscore |-> no_table, parent |-> no_table,
                   visited |-> no_visited, pops |-> 0, popped |-> <<>>]
             ELSE [pc |-> "loop", path |-> <<>>, stat_numcalc |-> 0,
                   q |-> q0, gscore |-> no_table,
                   parent |-> no_table, visited |-> no_visited, pops |-> 0,
                   popped |-> <<>>]
    ELSE [pc |-> "done", path |-> <<>>, stat_numcalc |-> 0] @@ no_locals

calc_begin(w, s, e, old) ==
    IF s # None /\ e # None
    THEN LET q0 == <<CellData(unwrap(s), distance(unwrap(s), unwrap(e)))>>
         IN  IF ~(is_passable(w, unwrap(s)) /\ is_passable(w, unwrap(e)))
             THEN [pc |-> "done", path |-> <<>>, stat_numcalc |-> 0,
                   q |-> q0, gscore |-> no_table, parent |-> no_table,
                   visited |-> no_visited, pops |-> 0, popped |-> <<>>]
             ELSE [pc |-> "loop", path |-> <<>>, stat_numcalc |-> 0,
                   q |-> q0,
                   gscore |-> [no_table EXCEPT ![unwrap(s)] = Some(0)],
                   parent |-> no_table, visited |-> no_visited, pops |-> 0,
                   popped |-> <<>>]
    ELSE [pc |-> "done", path |-> <<>>, stat_numcalc |-> 0] @@ no_locals

reverse(s) == [i \in 1..Len(s) |-> s[Len(s) + 1 - i]]

\* Lines 127-131: follow the parent links from p to st, pushing each cell.
\* A walk of more than ROWS * COLS cells repeats a cell and so never ends
\* ("hang"); unwrap of None panics.
RECURSIVE walk_to_root(_, _, _, _, _)
walk_to_root(par, st, p, acc, fuel) ==
    IF fuel = 0 THEN [path |-> acc, out |-> "hang"]
    ELSE IF par[p] = None THEN [path |-> acc, out |-> "done"]
    ELSE walk_to_root(par, st, unwrap(par[p]), Append(acc, p), fuel - 1)

RECURSIVE walk(_, _, _, _, _)
walk(par, st, p, acc, fuel) ==
    IF p = st THEN [path |-> acc, out |-> "done"]
    ELSE IF fuel = 0 THEN [path |-> acc, out |-> "hang"]
    ELSE IF par[p] = None THEN [path |-> Append(acc, p), out |-> "panic"]
    ELSE walk(par, st, unwrap(par[p]), Append(acc, p), fuel - 1)

\* Lines 127-134
reconstruct_with_start(par, st, en, old_path) ==
    LET wk == walk(par, st, en, old_path, ROWS * COLS)
    IN  [path |-> IF wk.out = "done" THEN reverse(Append(wk.path, st)) ELSE wk.path,
         out |-> wk.out]

reconstruct_unreversed(par, st, en, old_path) ==
    LET wk == walk(par, st, en, old_path, ROWS * COLS)
    IN  [path |-> wk.path, out |-> wk.out]

reconstruct(par, st, en, old_path) ==
    LET wk == walk(par, st, en, old_path, ROWS * COLS)
    IN  [path |-> IF wk.out = "done" THEN reverse(wk.path) ELSE wk.path,
         out |-> wk.out]

relax_reopen(w, en, curr, direction, L) ==
    LET next_pos == add(curr, direction)
    IN  IF L.pc # "loop" THEN L
        ELSE IF is_passable(w, next_pos)
        THEN IF L.gscore[curr] = None THEN [L EXCEPT !.pc = "panic"]
             ELSE LET tentative_gscore == unwrap(L.gscore[curr]) + 1
                      next_gscore == L.gscore[next_pos]
                  IN  IF \/ next_gscore = None
                         \/ tentative_gscore < unwrap(next_gscore)
                      THEN [L EXCEPT
                              !.parent[next_pos] = Some(curr),
                              !.gscore[next_pos] = Some(tentative_gscore),
                              !.q = Append(@, CellData(next_pos,
                                       tentative_gscore + distance(next_pos, en))),
                              !.visited[next_pos] = FALSE]
                      ELSE L
        ELSE L

\* Lines 138-157: one pass of the for loop, for one direction
relax(w, en, curr, direction, L) ==
    LET next_pos == add(curr, direction)
    IN  IF L.pc # "loop" THEN L
        ELSE IF is_passable(w, next_pos) /\ L.parent[next_pos] = None
        THEN LET L1 == [L EXCEPT !.parent[next_pos] = Some(curr)]
             IN  IF L.gscore[curr] = None THEN [L1 EXCEPT !.pc = "panic"]
                 ELSE LET tentative_gscore == unwrap(L.gscore[curr]) + 1
                          next_gscore == L.gscore[next_pos]
                      IN  IF \/ next_gscore = None
                             \/ tentative_gscore < unwrap(next_gscore)
                          THEN [L1 EXCEPT
                                  !.gscore[next_pos] = Some(tentative_gscore),
                                  !.q = Append(@, CellData(next_pos,
                                           tentative_gscore + distance(next_pos, en))),
                                  !.visited[next_pos] = FALSE]
                          ELSE L1
        ELSE L

\* Lines 137-158: the for loop over the four directions; the locals after
\* each pass are the input of the next
expand(w, en, curr, L) ==
    CHOOSE L4 \in
        {relax(w, en, curr, directions[4], L3) : L3 \in
            {relax(w, en, curr, directions[3], L2) : L2 \in
                {relax(w, en, curr, directions[2], L1) : L1 \in
                    {relax(w, en, curr, directions[1], L0) : L0 \in {L}}}}} :
        TRUE

\* Lines 118-159: one pass of the while loop.  st, en are the unwrapped
\* start and end; curr is the entry popped and L2 the locals after the pop.
calc_iter_count_late(w, st, en, L) ==
    IF L.q = <<>> THEN [L EXCEPT !.pc = "done"]
    ELSE LET i == heap_top(L.q)
             L1 == [L EXCEPT !.q = heap_remove(L.q, i), !.pops = @ + 1,
                             !.popped = Append(@, L.q[i])]
         IN  IF L.visited[L.q[i].pos] THEN L1
             ELSE CHOOSE R \in
                      {IF curr = en
                       THEN LET rc == reconstruct(L2.parent, st, en, L2.path)
                            IN  [L2 EXCEPT !.path = rc.path, !.pc = rc.out]
                       ELSE expand(w, en, curr,
                                   [L2 EXCEPT !.stat_numcalc = @ + 1])
                         : L2 \in {L1}, curr \in {L.q[i].pos}} : TRUE

calc_iter(w, st, en, L) ==
    IF L.q = <<>> THEN [L EXCEPT !.pc = "done"]
    ELSE LET i == heap_top(L.q)
             L1 == [L EXCEPT !.q = heap_remove(L.q, i), !.pops = @ + 1,
                             !.popped = Append(@, L.q[i])]
         IN  IF L.visited[L.q[i].pos] THEN L1
             ELSE CHOOSE R \in
                      {IF curr = en
                       THEN LET rc == reconstruct(L2.parent, st, en, L2.path)
                            IN  [L2 EXCEPT !.path = rc.path, !.pc = rc.out]
                       ELSE expand(w, en, curr, L2)
                         : L2 \in {[L1 EXCEPT !.stat_numcalc = @ + 1]},
                           curr \in {L.q[i].pos}} : TRUE

\* The while loop run until calculate returns (or panics, or hangs)
RECURSIVE calc_loop(_, _, _, _)
calc_loop(w, st, en, L) ==
    IF L.pc # "loop" THEN L ELSE calc_loop(w, st, en, calc_iter(w, st, en, L))

\* Lines 96-163: a whole call
calculate(w, s, e, old) ==
    LET L == calc_begin(w, s, e, old)
    IN  IF L.pc = "loop" THEN calc_loop(w, unwrap(s), unwrap(e), L) ELSE L

----------------------------------------------------------------------------
(* One call of calculate, step by step, on any grid, start and end *)

\* The cells that hold the walls of the grids searched
wall_cells ==
    {p \in Cells : \E i \in 0..(WallCells - 1) : p = Pos(i % ROWS, i \div ROWS)}

\* The history before the first frame
no_frame ==
    [from |-> <<"Init">>, s |-> FALSE, e |-> FALSE, calls |-> 0, muts |-> 0,
     run |-> 0, first |-> 0, had_path |-> FALSE]

InitSearch ==
    /\ control_state = <<"Grid">>
    /\ mouse_grid = None
    /\ \E W \in SUBSET wall_cells : is_wall = [p \in Cells |-> p \in W]
    /\ start \in OptCells
    /\ end \in OptCells
    /\ path = <<>>
    /\ stat_numcalc = 0
    /\ q = <<>>
    /\ gscore = no_table
    /\ parent = no_table
    /\ visited = no_visited
    /\ pc = "call"
    /\ pops = 0
    /\ popped = <<>>
    /\ tick = no_frame

SetLocals(L) ==
    /\ path' = L.path
    /\ stat_numcalc' = L.stat_numcalc
    /\ q' = L.q
    /\ gscore' = L.gscore
    /\ parent' = L.parent
    /\ visited' = L.visited
    /\ pc' = L.pc
    /\ pops' = L.pops
    /\ popped' = L.popped

Locals ==
    [pc |-> pc, path |-> path, stat_numcalc |-> stat_numcalc, q |-> q,
     gscore |-> gscore, parent |-> parent, visited |-> visited, pops |-> pops,
     popped |-> popped]

CalcCall ==
    /\ pc = "call"
    /\ \E L \in {calc_begin(is_wall, start, end,
                              [path |-> path, stat_numcalc |-> stat_numcalc])} :
          SetLocals(L)
    /\ UNCHANGED <<control_state, mouse_grid, is_wall, start, end, tick>>

CalcIter ==
    /\ pc = "loop"
    /\ \E L \in {calc_iter(is_wall, unwrap(start), unwrap(end), Locals)} :
          SetLocals(L)
    /\ UNCHANGED <<control_state, mouse_grid, is_wall, start, end, tick>>

NextSearch == CalcCall \/ CalcIter

SpecSearch == InitSearch /\ [][NextSearch]_vars

\* The cells that hold the walls of the grids searched under fairness
fair_wall_cells ==
    {p \in Cells :
        \E i \in 0..(FairWallCells - 1) : p = Pos(i % ROWS, i \div ROWS)}

InitSearchFair ==
    /\ \E W \in SUBSET fair_wall_cells : is_wall = [p \in Cells |-> p \in W]
    /\ InitSearch

\* calculate runs on the thread that called it: nothing keeps an enabled step
\* of it from being taken
SpecSearchFair ==
    InitSearchFair /\ [][NextSearch]_vars /\ WF_vars(NextSearch)

----------------------------------------------------------------------------
(* The frame loop of main: one action per arm of the match, one step per   *)
(* frame.  G is the part of the context a frame can change, with the       *)
(* locals of the last calculate() call and the frame's history counters.   *)

set_control_state_never(cs, new) == cs

\* Lines 82-86
set_control_state(cs, new) == IF cs # new THEN new ELSE cs

\* f32 as i64 of a position given in half cells: truncation towards zero
as_i64(x2) == IF x2 >= 0 THEN x2 \div 2 ELSE -((-x2) \div 2)

mouse_to_grid_inclusive(x2, y2) ==
    IF x2 >= 0 /\ x2 <= 2 * COLS /\ y2 >= 0 /\ y2 <= 2 * ROWS
    THEN Some(Pos(as_i64(y2), as_i64(x2)))
    ELSE None

\* Lines 227-235: the cell under the world position (x, y) of the pointer,
\* given in half cells as x2 = 2 x, y2 = 2 y
mouse_to_grid(x2, y2) ==
    IF x2 >= 0 /\ x2 < 2 * COLS /\ y2 >= 0 /\ y2 < 2 * ROWS
    THEN Some(Pos(as_i64(y2), as_i64(x2)))
    ELSE None

\* Lines 226-235: the cells the pointer is reported over
pointer_cells == {Pos(i % ROWS, i \div ROWS) : i \in 0..(PointerCells - 1)}

\* Line 226: the world positions of the pointer, in half cells: the centres
\* of the pointer cells and four positions just off the edges of the grid
pointer_world ==
    {<<2 * p[2] + 1, 2 * p[1] + 1>> : p \in pointer_cells}
        \cup {<<-1, 1>>, <<2 * COLS, 1>>, <<1, -1>>, <<1, 2 * ROWS>>}

pointer_values == {mouse_to_grid(m[1], m[2]) : m \in pointer_world}

Ctx ==
    [is_wall |-> is_wall, start |-> start, end |-> end,
     calls |-> 0, muts |-> 0] @@ Locals

\* context.calculate() on G
call_calculate(G) ==
    LET L == calculate(G.is_wall, G.start, G.end,
                       [path |-> G.path, stat_numcalc |-> G.stat_numcalc])
    IN  [is_wall |-> G.is_wall, start |-> G.start, end |-> G.end,
         calls |-> G.calls + 1, muts |-> G.muts] @@ L

\* A calculate() that panicked or hung ends the frame loop
alive(G) == G.pc \in {"idle", "done"}

mark_start_unguarded(G, mg, key_s) ==
    IF alive(G) /\ key_s
    THEN call_calculate([G EXCEPT !.start = mg, !.muts = @ + 1])
    ELSE G

\* Lines 253-258
mark_start(G, mg, key_s) ==
    IF alive(G) /\ key_s /\ mg # G.start
    THEN call_calculate([G EXCEPT !.start = mg, !.muts = @ + 1])
    ELSE G

mark_end_nocalc(G, mg, key_e) ==
    IF alive(G) /\ key_e /\ mg # G.end
    THEN [G EXCEPT !.end = mg, !.muts = @ + 1]
    ELSE G

\* Lines 259-264
mark_end(G, mg, key_e) ==
    IF alive(G) /\ key_e /\ mg # G.end
    THEN call_calculate([G EXCEPT !.end = mg, !.muts = @ + 1])
    ELSE G

paint_toggle(G, mg, is_draw) ==
    IF mg # None /\ unwrap(mg) \notin Cells
    THEN [G EXCEPT !.pc = "panic"]
    ELSE IF mg # None
    THEN call_calculate([G EXCEPT !.is_wall[unwrap(mg)] = ~@, !.muts = @ + 1])
    ELSE G

\* Lines 281-286.  Indexing is_wall outside the grid panics.
paint(G, mg, is_draw) ==
    IF mg # None /\ unwrap(mg) \notin Cells
    THEN [G EXCEPT !.pc = "panic"]
    ELSE IF mg # None /\ G.is_wall[unwrap(mg)] # is_draw
    THEN call_calculate([G EXCEPT !.is_wall[unwrap(mg)] = is_draw, !.muts = @ + 1])
    ELSE G

\* History of a frame that began in control state from, ended in to, read
\* the pointer mg and the keys s, e, and made calls searches and muts
\* assignments to start, end or a wall.  run counts the frames (up to MaxRun)
\* of the current run of frames that began and ended in the same control
\* state with the same pointer and keys; first is the number of searches of
\* the first frame of that run; had_path tells whether the path was non-empty
\* before the frame.
frame(from, to, mg, s, e, calls, muts) ==
    LET same == /\ tick.from = from
                /\ from = to
                /\ mouse_grid = mg
                /\ tick.s = s
                /\ tick.e = e
    IN  [from |-> from, s |-> s, e |-> e, calls |-> calls, muts |-> muts,
         run |-> IF same /\ tick.run < MaxRun THEN tick.run + 1
                 ELSE IF same THEN MaxRun ELSE 1,
         first |-> IF same THEN tick.first ELSE calls,
         had_path |-> path # <<>>]

SetCtx(G) ==
    /\ is_wall' = G.is_wall
    /\ start' = G.start
    /\ end' = G.end
    /\ SetLocals(G)

Init ==
    /\ control_state = <<"Grid">>
    /\ mouse_grid = None
    /\ is_wall = [p \in Cells |-> FALSE]
    /\ start = None
    /\ end = None
    /\ path = <<>>
    /\ stat_numcalc = 0
    /\ q = <<>>
    /\ gscore = no_table
    /\ parent = no_table
    /\ visited = no_visited
    /\ pc = "idle"
    /\ pops = 0
    /\ popped = <<>>
    /\ tick = no_frame

TickGrid_no_break(mg, middle_pressed, left_pressed, key_s, key_e) ==
    /\ pc \in {"idle", "done"}
    /\ control_state = <<"Grid">>
    /\ mouse_grid' = mg
    /\ \E G \in {mark_end(mark_start(Ctx, mg, key_s), mg, key_e)} :
          /\ SetCtx(G)
          /\ control_state' =
                IF middle_pressed
                THEN set_control_state(control_state, <<"Panning">>)
                ELSE IF mg # None /\ left_pressed
                THEN set_control_state(control_state,
                                       <<"Drawing", ~is_wall[unwrap(mg)]>>)
                ELSE control_state
          /\ tick' = frame(control_state, control_state', mg, key_s, key_e,
                            G.calls, G.muts)

\* Lines 238-265.  Indexing is_wall outside the grid (line 248) panics.
TickGrid(mg, middle_pressed, left_pressed, key_s, key_e) ==
    /\ pc \in {"idle", "done"}
    /\ control_state = <<"Grid">>
    /\ mouse_grid' = mg
    /\ IF middle_pressed
       THEN /\ control_state' = set_control_state(control_state, <<"Panning">>)
            /\ tick' = frame(control_state, control_state', mg, FALSE, FALSE, 0, 0)
            /\ UNCHANGED <<is_wall, start, end, path, stat_numcalc, search_vars>>
       ELSE IF mg # None /\ left_pressed /\ unwrap(mg) \notin Cells
       THEN /\ pc' = "panic"
            /\ tick' = frame(control_state, control_state, mg, FALSE, FALSE, 0, 0)
            /\ UNCHANGED <<control_state, is_wall, start, end, path,
                           stat_numcalc, q, gscore, parent, visited, pops,
                           popped>>
       ELSE IF mg # None /\ left_pressed
       THEN /\ control_state' = set_control_state(control_state,
                                    <<"Drawing", ~is_wall[unwrap(mg)]>>)
            /\ tick' = frame(control_state, control_state', mg, FALSE, FALSE, 0, 0)
            /\ UNCHANGED <<is_wall, start, end, path, stat_numcalc, search_vars>>
       ELSE \E G \in {mark_end(mark_start(Ctx, mg, key_s), mg, key_e)} :
                /\ SetCtx(G)
                /\ tick' = frame(control_state, control_state, mg, key_s, key_e,
                                  G.calls, G.muts)
                /\ UNCHANGED control_state

\* Lines 266-274
TickPanning(mg, middle_released) ==
    /\ pc \in {"idle", "done"}
    /\ control_state = <<"Panning">>
    /\ mouse_grid' = mg
    /\ control_state' = IF middle_released
                        THEN set_control_state(control_state, <<"Grid">>)
                        ELSE control_state
    /\ tick' = frame(control_state, control_state', mg, FALSE, FALSE, 0, 0)
    /\ UNCHANGED <<is_wall, start, end, path, stat_numcalc, search_vars>>

\* Lines 275-287
TickDrawing(mg, left_released) ==
    /\ pc \in {"idle", "done"}
    /\ control_state[1] = "Drawing"
    /\ mouse_grid' = mg
    /\ IF left_released
       THEN /\ control_state' = set_control_state(control_state, <<"Grid">>)
            /\ tick' = frame(control_state, control_state', mg, FALSE, FALSE, 0, 0)
            /\ UNCHANGED <<is_wall, start, end, path, stat_numcalc, search_vars>>
       ELSE \E G \in {paint(Ctx, mg, control_state[2])} :
                /\ SetCtx(G)
                /\ tick' = frame(control_state, control_state, mg, FALSE, FALSE,
                                  G.calls, G.muts)
                /\ UNCHANGED control_state

Next ==
    \/ \E mg \in pointer_values, mp, lp, ks, ke \in BOOLEAN :
          TickGrid(mg, mp, lp, ks, ke)
    \/ \E mg \in pointer_values, mr \in BOOLEAN : TickPanning(mg, mr)
    \/ \E mg \in pointer_values, lr \in BOOLEAN : TickDrawing(mg, lr)

Spec == Init /\ [][Next]_vars

----------------------------------------------------------------------------
(* Reference definitions used by the properties: 4-connected reachability  *)
(* and distance, by breadth-first layers.                                  *)

Free(w, p) == p \in Cells /\ ~w[p]

Adjacent(a, b) == distance(a, b) = 1

Beside(a) ==
    {Pos(a[1] - 1, a[2]), Pos(a[1] + 1, a[2]), Pos(a[1], a[2] - 1), Pos(a[1], a[2] + 1)}

\* The passable cells next to a cell of S
Around(w, S) == {p \in UNION {Beside(a) : a \in S} : Free(w, p)}

\* Distance from the layer at depth d to target, -1 if there is no route
RECURSIVE Layers(_, _, _, _, _)
Layers(w, layer, seen, target, d) ==
    IF target \in layer THEN d
    ELSE IF layer = {} THEN -1
    ELSE LET nxt == Around(w, layer) \ seen
         IN  Layers(w, nxt, seen \cup nxt, target, d + 1)

Dist(w, a, b) == Layers(w, {a}, {a}, b, 0)

RECURSIVE Grow(_, _)
Grow(w, S) ==
    LET T == S \cup Around(w, S) IN IF T = S THEN S ELSE Grow(w, T)

\* The passable cells reachable from a passable cell a
Reach(w, a) == Grow(w, {a})

Present == start # None /\ end # None

\* start and end present, passable and distinct
Routable ==
    /\ Present
    /\ Free(is_wall, unwrap(start))
    /\ Free(is_wall, unwrap(end))
    /\ start # end

Connected == Dist(is_wall, unwrap(start), unwrap(end)) >= 0

Returned == pc = "done"

----------------------------------------------------------------------------
(* Properties of one search (SpecSearch) *)

\* C1: whenever start and end are present, passable, distinct and connected,
\* the path calculate() returns is as long as the shortest 4-connected
\* distance from start to end.
C1_ShortestLength ==
    (Returned /\ Routable /\ Connected)
        => Len(path) = Dist(is_wall, unwrap(start), unwrap(end))

ValidRoute(w, s, e, p) ==
    /\ p # <<>>
    /\ \A i \in 1..Len(p) : p[i] \in Cells /\ ~w[p[i]] /\ p[i] # s
    /\ Adjacent(s, p[1])
    /\ \A i \in 1..(Len(p) - 1) : Adjacent(p[i], p[i + 1])
    /\ p[Len(p)] = e

\* C2: whenever start and end are present, passable, distinct and connected,
\* calculate() leaves a non-empty path without start, whose first cell is
\* next to start, whose consecutive cells are next to each other, whose cells
\* are all in bounds and not walls, and whose last cell is end.
C2_ValidRoute ==
    (pc # "call" /\ pc # "loop" /\ Routable /\ Connected)
        => (Returned /\ ValidRoute(is_wall, unwrap(start), unwrap(end), path))

C2_Witness ==
    /\ Returned /\ Routable /\ Connected
    /\ Len(path) >= 4
    /\ \E p \in Cells : is_wall[p]

\* C7 as stated: when start and end are present and equal the search effort
\* is 0.
C7_EqualEffortZero ==
    (Returned /\ Present /\ start = end) => stat_numcalc = 0

\* C7 amended: when start and end are present and equal the path is empty
\* and the search effort is 1, the start cell itself being popped and
\* counted, unless that cell is a wall, when the effort is 0.
C7_EqualEffort ==
    (pc # "call" /\ pc # "loop" /\ Present /\ start = end)
        => /\ Returned
           /\ path = <<>>
           /\ stat_numcalc = IF is_wall[unwrap(start)] THEN 0 ELSE 1

C7_Witness ==
    /\ Returned /\ Present /\ start = end
    /\ ~is_wall[unwrap(start)]
    /\ stat_numcalc = 1
    /\ \E p \in Cells : is_wall[p]

\* C10: when start and end are present and passable but not connected, the
\* path is empty and the search effort is at most the number of passable
\* cells reachable from start.
C10_NoRoute ==
    (pc # "call" /\ pc # "loop" /\ Routable /\ ~Connected)
        => /\ Returned
           /\ path = <<>>
           /\ stat_numcalc <= Cardinality(Reach(is_wall, unwrap(start)))

C10_Witness ==
    /\ Returned /\ Routable /\ ~Connected
    /\ path = <<>>
    /\ stat_numcalc >= 3

\* a comes before b: lower f-score, then lower row, then lower column
LexBefore(a, b) ==
    \/ a.fscore < b.fscore
    \/ a.fscore = b.fscore /\ a.pos[1] < b.pos[1]
    \/ a.fscore = b.fscore /\ a.pos[1] = b.pos[1] /\ a.pos[2] < b.pos[2]

\* C13: every call of calculate returns: the while loop ends by popping end
\* or by draining the heap, and the walk over the parent links reaches start.
C13_Terminates == <>(pc = "done")

\* a call returned a path although start was given a parent by a neighbour
C13_Witness ==
    /\ pc = "done"
    /\ Len(path) >= 3
    /\ parent[unwrap(start)] # None
    /\ \E p \in Cells : is_wall[p]

\* C14: whenever a search finds a route, stat_numcalc is greater than the
\* length of the path and at most the number of cells that are not walls.
C14_EffortBounds ==
    (Returned /\ path # <<>>)
        => /\ stat_numcalc > Len(path)
           /\ stat_numcalc <= Cardinality({p \in Cells : ~is_wall[p]})

\* a route found around a wall after popping cells that are not on it
C14_Witness ==
    /\ Returned
    /\ Len(path) >= 4
    /\ stat_numcalc > Len(path) + 1
    /\ \E p \in Cells : is_wall[p]

\* C15: during a search no cell is popped twice and no cell is in the heap
\* twice or again after it was popped, so stat_numcalc is the number of
\* distinct cells popped.
C15_CountsOnce ==
    /\ \A i, j \in 1..Len(popped) : popped[i].pos = popped[j].pos => i = j
    /\ \A i, j \in 1..Len(q) : q[i].pos = q[j].pos => i = j
    /\ \A i \in 1..Len(q), j \in 1..Len(popped) : q[i].pos # popped[j].pos
    /\ stat_numcalc = Cardinality({popped[i].pos : i \in 1..Len(popped)})

\* a search that popped five cells, left cells in the heap, and reached
\* a popped cell (start) again from a neighbour
C15_Witness ==
    /\ Returned
    /\ Len(popped) >= 5
    /\ q # <<>>
    /\ parent[unwrap(start)] # None
    /\ \A i \in 1..Len(popped) : ~visited[popped[i].pos]

\* C16: the g-score recorded for a cell during a search is the shortest
\* 4-connected distance from start to that cell.
C16_FirstScoreShortest ==
    (pc \in {"loop", "done"} /\ Present)
        => \A p \in Cells :
              gscore[p] # None
                  => unwrap(gscore[p]) = Dist(is_wall, unwrap(start), p)

\* C11: every pop takes from the frontier the entry that comes first by
\* f-score, then row, then column.
C11_PopsLeast ==
    [][pops' = pops + 1
          => LET e == popped'[Len(popped')]
             IN  /\ \E j \in 1..Len(q) : q[j] = e
                 /\ \A j \in 1..Len(q) : q[j] = e \/ LexBefore(e, q[j])]_vars

\* Two entries of equal f-score were in the frontier together and the one
\* of the lower row was popped first
C11_Witness ==
    \E k, m \in 1..Len(popped) :
        /\ k < m
        /\ popped[k].fscore = popped[m].fscore
        /\ popped[k].pos[1] < popped[m].pos[1]
        /\ \E i \in 1..(k - 1) : parent[popped[m].pos] = Some(popped[i].pos)

----------------------------------------------------------------------------
(* Properties of the frame loop (Spec) *)

\* C3: at the end of every frame the stored path is the one a search on the
\* current walls, start and end produces.
C3_PathFresh ==
    /\ pc \in {"idle", "done"}
    /\ path = calculate(is_wall, start, end,
                        [path |-> path, stat_numcalc |-> stat_numcalc]).path

C3_Witness ==
    /\ tick.muts > 0
    /\ tick.from[1] = "Drawing"
    /\ tick.had_path
    /\ path # <<>>
    /\ \E p \in Cells : is_wall[p]

\* C4: in every frame the search is invoked at most once and at most one of
\* start, end and the walls is assigned.
C4_OnePerTick == tick.calls <= 1 /\ tick.muts <= 1

\* C5: a frame in which the pointer is outside the grid leaves walls, start,
\* end and path unchanged and invokes no search.
C5_AbsentPointerFrame ==
    [][mouse_grid' = None
          => (UNCHANGED <<is_wall, start, end, path>> /\ tick'.calls = 0)]_vars

\* C6: in a run of frames with the same pointer cell, the same keys held and
\* the same control state, only the first frame can invoke the search; and a
\* frame that leaves walls, start and end unchanged invokes no search.
C6_RecomputeGuard ==
    [][/\ tick'.run >= 2 => tick'.calls = 0
       /\ tick'.calls > 0 => <<is_wall, start, end>>' # <<is_wall, start, end>>]_vars

C6_Witness ==
    /\ tick.run >= 2
    /\ tick.first > 0
    /\ tick.calls = 0
    /\ tick.s
    /\ tick.from = <<"Grid">>
    /\ mouse_grid # None

\* C8: whenever start and end are present and equal the path is empty,
\* whatever the walls, also when that cell is a wall.
C8_EqualEmptyPath == (Present /\ start = end) => path = <<>>

C8_Witness ==
    /\ Present /\ start = end
    /\ tick.calls > 0
    /\ tick.had_path
    /\ path = <<>>

\* C17: a frame that begins in Grid with the middle button not pressed and
\* the left button pressed over a cell (the pointer the frame read) ends in Drawing(v), v being the
\* negation of the wall value of that cell, changes no wall, start, end or
\* path and calls no search.
C17_PressStartsDrawing ==
    [][(control_state = <<"Grid">> /\ mouse_grid' # None)
          => \A key_s, key_e \in BOOLEAN :
                TickGrid(mouse_grid', FALSE, TRUE, key_s, key_e)
                    => /\ control_state' =
                             <<"Drawing", ~is_wall[unwrap(mouse_grid')]>>
                       /\ UNCHANGED <<is_wall, start, end, path, stat_numcalc>>
                       /\ tick'.calls = 0
                       /\ tick'.muts = 0]_vars

\* the left button was pressed over a wall while a path was shown: Drawing
\* of non-walls begins and the wall is still there
C17_Witness ==
    /\ control_state = <<"Drawing", FALSE>>
    /\ tick.from = <<"Grid">>
    /\ mouse_grid # None
    /\ is_wall[unwrap(mouse_grid)]
    /\ path # <<>>
    /\ tick.calls = 0

\* C18: a frame that begins in Drawing(v) ends in Drawing(v) unless the left
\* button is released; while it is not released the frame changes at most
\* the wall value of the cell under the pointer, from not v to v, and calls
\* one search exactly when it does; the frame of the release ends in Grid
\* and changes no wall.
C18_DrawingPaints ==
    [][control_state[1] = "Drawing"
          => /\ \A mg \in {mouse_grid'} :
                   TickDrawing(mg, FALSE)
                       => /\ control_state' = control_state
                          /\ \A p \in Cells :
                                 is_wall'[p] # is_wall[p]
                                     => /\ mg = Some(p)
                                        /\ is_wall[p] = ~control_state[2]
                                        /\ is_wall'[p] = control_state[2]
                          /\ tick'.calls = IF is_wall' # is_wall THEN 1 ELSE 0
             /\ \A mg \in {mouse_grid'} :
                   TickDrawing(mg, TRUE)
                       => /\ control_state' = <<"Grid">>
                          /\ is_wall' = is_wall
                          /\ tick'.calls = 0]_vars

\* the left button was released over a cell that is not a wall, after
\* walls were drawn
C18_Witness ==
    /\ control_state = <<"Grid">>
    /\ tick.from = <<"Drawing", TRUE>>
    /\ mouse_grid # None
    /\ ~is_wall[unwrap(mouse_grid)]
    /\ Cardinality({p \in Cells : is_wall[p]}) >= 2
    /\ path # <<>>

\* C19: start and end change only in frames that begin and end in Grid;
\* walls change only in frames that begin and end in the same Drawing state;
\* a frame that begins in Panning or changes the control state leaves walls,
\* start, end and path unchanged and calls no search; a frame that begins in
\* Grid with the middle button pressed ends in Panning, whatever the left
\* button and the S and E keys are.
C19_ConfinedMutations ==
    [][/\ (start' # start \/ end' # end)
             => control_state = <<"Grid">> /\ control_state' = <<"Grid">>
       /\ is_wall' # is_wall
             => control_state[1] = "Drawing" /\ control_state' = control_state
       /\ (control_state = <<"Panning">> \/ control_state' # control_state)
             => /\ UNCHANGED <<is_wall, start, end, path>>
                /\ tick'.calls = 0
       /\ (control_state = <<"Grid">> /\ control_state' # <<"Panning">>)
             => \A left_pressed, key_s, key_e \in BOOLEAN :
                   ~TickGrid(mouse_grid', TRUE, left_pressed, key_s, key_e)]_vars

\* the middle button was pressed in Grid while the pointer was over a cell
\* that is neither start nor end, with a path shown
C19_Witness ==
    /\ control_state = <<"Panning">>
    /\ tick.from = <<"Grid">>
    /\ mouse_grid # None
    /\ mouse_grid # start
    /\ mouse_grid # end
    /\ path # <<>>

\* C20: no search called from the frame loop panics: every cell put in the
\* heap, popped or stored as a parent is inside the grid, every popped cell
\* has a g-score, and every cell of the path walked has a parent.
C20_NoFatal ==
    /\ pc # "panic"
    /\ \A i \in 1..Len(q) : q[i].pos \in Cells
    /\ \A i \in 1..Len(popped) :
          popped[i].pos \in Cells /\ gscore[popped[i].pos] # None
    /\ \A p \in Cells : parent[p] # None => unwrap(parent[p]) \in Cells
    /\ \A i \in 1..Len(path) : parent[path[i]] # None

\* a frame called a search that expanded cells at the edge of the grid and
\* walked a path back to a start that has a parent
C20_Witness ==
    /\ pc = "done"
    /\ tick.calls > 0
    /\ Len(path) >= 2
    /\ parent[unwrap(start)] # None
    /\ \E i \in 1..Len(popped) : popped[i].pos[1] = ROWS - 1
    /\ \E p \in Cells : is_wall[p]

\* C12: start and end, when present, and every cell of path lie inside the
\* grid, and is_wall has no entry outside it.
C12_InGrid ==
    /\ start \in OptCells
    /\ end \in OptCells
    /\ \A i \in 1..Len(path) : path[i] \in Cells
    /\ DOMAIN is_wall = Cells

\* start and end were marked on cells at the edge of the grid, with a wall
\* painted and a path found
C12_Witness ==
    /\ Present
    /\ unwrap(start)[1] = ROWS - 1
    /\ unwrap(end)[2] = 0
    /\ path # <<>>
    /\ \E p \in Cells : is_wall[p]

BadEndpoints ==
    \/ start = None
    \/ end = None
    \/ is_wall[unwrap(start)]
    \/ is_wall[unwrap(end)]

\* C9: if start or end is absent or a wall, calculate() leaves an empty path
\* and search effort 0 and pops nothing from the frontier; what the path and
\* effort were before is not kept.
C9_BadEndpoints ==
    BadEndpoints => (path = <<>> /\ stat_numcalc = 0 /\ pops = 0)

C9_Witness ==
    /\ Present
    /\ is_wall[unwrap(end)]
    /\ ~is_wall[unwrap(start)]
    /\ tick.calls > 0
    /\ tick.had_path
    /\ path = <<>>

====
